---- MODULE Spec2Model ----
(***************************************************************************)
(* State-machine model of the download queue of YoutubeDownloader-Mac:     *)
(* DownloadTask / DownloadManager (src/modules/gui.py) and the progress    *)
(* relay of YouTubeDownloader (src/modules/downloader.py).                  *)
(*                                                                         *)
(* Threads: the UI thread (add_task, cancel_task, pause_task, resume_task, *)
(* start_worker: each call is one action), the dispatcher thread           *)
(* (_process_queue, one action per statement that reads or writes shared   *)
(* state) and the worker threads (_download_task: entry check, adapter     *)
(* call with its progress callbacks, handling of the returned result).     *)
(*                                                                         *)
(* The functions that touch no shared state (download_subtitles,           *)
(* download_audio, _load_settings) are operators, applied to every         *)
(* argument under SpecAdapter; DownloadTask.id is tracked under SpecIds.   *)
(*                                                                         *)
(* Status literals of the source:                                          *)
(*   Pending = "等待中"   Running = "下载中"   Completed = "已完成"           *)
(*   Paused  = "已暂停"   Canceled = "已取消"  Failed = "失败"               *)
(***************************************************************************)
EXTENDS Integers, Sequences, FiniteSets, TLC

(* ---------------------------------------------------------------- bounds *)
MaxTasks == 2              \* tasks the UI submits under Spec
SingleTasks == 1           \* tasks the UI submits under SpecOne
MaxResumes == 1            \* accepted resume_task calls
NumDispatcherSlots == 2    \* dispatcher threads that can exist at once
NumAddresses == 3          \* addresses the allocator can give to a task object
MaxClock == 1              \* seconds that pass while tasks are created

(* ------------------------------------------------------ program constants *)
max_concurrent == 2

Pending == "Pending"
Running == "Running"
Completed == "Completed"
Paused == "Paused"
Canceled == "Canceled"
Failed == "Failed"

Statuses == {Pending, Running, Completed, Paused, Canceled, Failed}

\* task ids in order of creation; SpecCap submits one task more than the cap
TaskIds == 1..(max_concurrent + 1)
Slots == 1..NumDispatcherSlots

(* task kinds the UI submits, plus one kind that is none of them *)
TaskTypes == {"video", "audio", "subtitle", "other"}

VARIABLES
    tasks,          \* DownloadManager.tasks: id -> DownloadTask fields
    task_queue,     \* DownloadManager.task_queue (FIFO of ids)
    running,        \* DownloadManager.running
    worker_thread,  \* DownloadManager.worker_thread: 0 (None) or a slot
    disp,           \* dispatcher threads: slot -> [pc, active_tasks, task_id]
    wEntry,         \* id -> worker threads started, before the entry check
    wCall,          \* id -> worker threads inside the adapter call
    ret,            \* what the last call of the UI thread returned or raised,
                    \* as text: "None", "True", "False", a task id, an exception
    admitLog,       \* history: ids in the order of their first admission
    canceledPending,\* history: ids for which cancel_task hit status Pending
    resumed,        \* history: ids resumed, not yet admitted again or canceled
    resumes,        \* history: number of accepted resume_task calls
    call,           \* a call of a function that touches no shared state
                    \* (download_subtitles, download_audio, _load_settings):
                    \* its arguments, what the environment answers, its result
    clock,          \* int(time.time())
    ids             \* the DownloadTask objects created, in order of creation:
                    \* the id each computed for itself and its address id(self)

vars == <<tasks, task_queue, running, worker_thread, disp, wEntry, wCall,
          ret, admitLog, canceledPending, resumed, resumes, call, clock, ids>>

hist == <<admitLog, canceledPending, resumed, resumes>>

\* what the download queue itself neither reads nor writes
env == <<call, clock, ids>>

(* ------------------------------------------------------------ DownloadTask *)
NewTask(task_type) ==
    [task_type |-> task_type, status |-> Pending, progress |-> 0,
     speed |-> "", eta |-> "", result |-> "None"]

\* update_progress that leaves a Canceled task's status alone
update_progress_checked(task, percent, speed, eta) ==
    [task EXCEPT !.progress = percent, !.speed = speed, !.eta = eta,
                 !.status = IF task.status = Canceled THEN Canceled
                            ELSE IF percent < 100 THEN Running
                            ELSE Completed]

update_progress(task, percent, speed, eta) ==
    [task EXCEPT !.progress = percent, !.speed = speed, !.eta = eta,
                 !.status = IF percent < 100 THEN Running ELSE Completed]

cancel(task) == [task EXCEPT !.status = Canceled]

(* ------------------------------------------------- progress relay (adapter) *)
\* f"{speed/1024/1024:.1f} MB/s": one decimal, rounded
SpeedStr(speed) ==
    LET tenths == (speed * 10 + 524288) \div 1048576
    IN  ToString(tenths \div 10) \o "." \o ToString(tenths % 10) \o " MB/s"

\* the library's progress events: total / estimate / speed / eta 0 = absent
ProgressEvents ==
    { [downloaded_bytes |-> 1, total_bytes |-> 2, total_bytes_estimate |-> 0,
       speed |-> 1048576, eta |-> 10],
      [downloaded_bytes |-> 2, total_bytes |-> 2, total_bytes_estimate |-> 4,
       speed |-> 1048576, eta |-> 0] }

\* YouTubeDownloader._progress_hook(d, callback), the definition in force:
\* the arguments handed to callback
HookPercent(d) ==
    LET total_bytes == IF d.total_bytes # 0 THEN d.total_bytes
                       ELSE d.total_bytes_estimate
    IN  IF total_bytes > 0 THEN (d.downloaded_bytes * 100) \div total_bytes
        ELSE 0

HookSpeed(d) == IF d.speed # 0 THEN SpeedStr(d.speed) ELSE "unknown"

HookEta(d) == IF d.eta # 0 THEN ToString(d.eta) \o "s" ELSE "unknown"

(* ------------------------------------------------------------------- Init *)
DeadDispatcher == [pc |-> "dead", active_tasks |-> <<>>, task_id |-> 0]

\* no function of the adapter or of the settings is being called
NoCall == [op |-> "none", pc |-> "return"]

Init ==
    /\ tasks = <<>>
    /\ task_queue = <<>>
    /\ running = FALSE
    /\ worker_thread = 0
    /\ disp = [s \in Slots |-> DeadDispatcher]
    /\ wEntry = [t \in TaskIds |-> 0]
    /\ wCall = [t \in TaskIds |-> 0]
    /\ ret = "None"
    /\ admitLog = <<>>
    /\ canceledPending = {}
    /\ resumed = {}
    /\ resumes = 0
    /\ call = NoCall
    /\ clock = 0
    /\ ids = <<>>

Known(task_id) == task_id \in DOMAIN tasks

is_alive(s) == s # 0 /\ disp[s].pc # "dead"

AliveDispatchers == {s \in Slots : disp[s].pc # "dead"}

(* ---------------------------------------------------------- UI thread calls *)
\* start_worker without the is_alive test of line 82
start_worker_unguarded ==
    \E s \in Slots :
        /\ disp[s].pc = "dead"
        /\ \A s2 \in Slots : disp[s2].pc = "dead" => s <= s2
        /\ running' = TRUE
        /\ worker_thread' = s
        /\ disp' = [disp EXCEPT ![s] = [pc |-> "admit",
                                        active_tasks |-> <<>>,
                                        task_id |-> 0]]

\* start_worker: the updates to running / worker_thread / disp; a new
\* dispatcher thread takes the lowest slot whose thread has terminated
start_worker ==
    IF is_alive(worker_thread)
    THEN UNCHANGED <<running, worker_thread, disp>>
    ELSE \E s \in Slots :
            /\ disp[s].pc = "dead"
            /\ \A s2 \in Slots : disp[s2].pc = "dead" => s <= s2
            /\ running' = TRUE
            /\ worker_thread' = s
            /\ disp' = [disp EXCEPT ![s] = [pc |-> "admit",
                                            active_tasks |-> <<>>,
                                            task_id |-> 0]]

\* the UI creates the next task and hands it to add_task
add_task(task_type) ==
    LET id == Len(tasks) + 1 IN
    /\ id \in TaskIds
    /\ tasks' = Append(tasks, NewTask(task_type))
    /\ task_queue' = Append(task_queue, id)
    /\ IF ~running THEN start_worker
       ELSE UNCHANGED <<running, worker_thread, disp>>
    /\ ret' = ToString(id)
    /\ UNCHANGED <<wEntry, wCall, hist, call>>

StartWorkerCall ==
    /\ start_worker
    /\ ret' = "None"
    /\ UNCHANGED <<tasks, task_queue, wEntry, wCall, hist, env>>

\* cancel_task with the status test of line 185 widened to Paused
cancel_task_paused(task_id) ==
    /\ UNCHANGED <<task_queue, running, worker_thread, disp, wEntry, wCall,
                   admitLog, resumes, env>>
    /\ IF ~Known(task_id)
       THEN /\ ret' = "False"
            /\ UNCHANGED <<tasks, canceledPending, resumed>>
       ELSE IF tasks[task_id].status = Pending
       THEN /\ tasks' = [tasks EXCEPT ![task_id] = cancel(@)]
            /\ ret' = "True"
            /\ canceledPending' = canceledPending \cup {task_id}
            /\ resumed' = resumed \ {task_id}
       ELSE IF tasks[task_id].status \in {Running, Paused}
       THEN /\ tasks' = [tasks EXCEPT ![task_id] = cancel(@)]
            /\ ret' = "AttributeError"
            /\ resumed' = resumed \ {task_id}
            /\ UNCHANGED canceledPending
       ELSE /\ ret' = "False"
            /\ UNCHANGED <<tasks, canceledPending, resumed>>

\* cancel_task: self.downloader.cancel_download() does not exist on
\* YouTubeDownloader, so the Running branch raises AttributeError after
\* task.cancel() has run
cancel_task(task_id) ==
    /\ UNCHANGED <<task_queue, running, worker_thread, disp, wEntry, wCall,
                   admitLog, resumes, env>>
    /\ IF ~Known(task_id)
       THEN /\ ret' = "False"
            /\ UNCHANGED <<tasks, canceledPending, resumed>>
       ELSE IF tasks[task_id].status = Pending
       THEN /\ tasks' = [tasks EXCEPT ![task_id] = cancel(@)]
            /\ ret' = "True"
            /\ canceledPending' = canceledPending \cup {task_id}
            /\ resumed' = resumed \ {task_id}
       ELSE IF tasks[task_id].status = Running
       THEN /\ tasks' = [tasks EXCEPT ![task_id] = cancel(@)]
            /\ ret' = "AttributeError"
            /\ resumed' = resumed \ {task_id}
            /\ UNCHANGED canceledPending
       ELSE /\ ret' = "False"
            /\ UNCHANGED <<tasks, canceledPending, resumed>>

\* pause_task with the status test of line 200 widened to Pending
pause_task_pending(task_id) ==
    /\ UNCHANGED <<task_queue, running, worker_thread, disp, wEntry, wCall,
                   hist, env>>
    /\ IF Known(task_id) /\ tasks[task_id].status \in {Running, Pending}
       THEN /\ tasks' = [tasks EXCEPT ![task_id].status = Paused]
            /\ ret' = "True"
       ELSE /\ ret' = "False"
            /\ UNCHANGED tasks

pause_task(task_id) ==
    /\ UNCHANGED <<task_queue, running, worker_thread, disp, wEntry, wCall,
                   hist, env>>
    /\ IF Known(task_id) /\ tasks[task_id].status = Running
       THEN /\ tasks' = [tasks EXCEPT ![task_id].status = Paused]
            /\ ret' = "True"
       ELSE /\ ret' = "False"
            /\ UNCHANGED tasks

\* resume_task; the environment makes at most MaxResumes accepted calls
resume_task(task_id) ==
    /\ UNCHANGED <<wEntry, wCall, admitLog, canceledPending, env>>
    /\ IF Known(task_id) /\ tasks[task_id].status = Paused
       THEN /\ resumes < MaxResumes
            /\ tasks' = [tasks EXCEPT ![task_id].status = Pending]
            /\ task_queue' = Append(task_queue, task_id)
            /\ IF ~running THEN start_worker
               ELSE UNCHANGED <<running, worker_thread, disp>>
            /\ ret' = "True"
            /\ resumed' = resumed \cup {task_id}
            /\ resumes' = resumes + 1
       ELSE /\ ret' = "False"
            /\ UNCHANGED <<tasks, task_queue, running, worker_thread, disp,
                           resumed, resumes>>

(* ------------------------------------------- dispatcher: _process_queue *)
Goto(s, label) == disp' = [disp EXCEPT ![s].pc = label]

\* mutant of get_nowait: takes the newest id
get_nowait_lifo(q) == [id |-> q[Len(q)], rest |-> SubSeq(q, 1, Len(q) - 1)]

\* queue.Queue.get_nowait on a non-empty queue: the oldest id, and the rest
get_nowait(q) == [id |-> Head(q), rest |-> Tail(q)]

\* lines 93-98: the loop test (while self.running), the test of the inner
\* loop (len(active_tasks) < max_concurrent and not task_queue.empty()) and
\* get_nowait.  Only the dispatcher removes ids from the queue, so the queue
\* cannot empty between the test and get_nowait.
DispAdmit(s) ==
    /\ disp[s].pc = "admit"
    /\ IF ~running
       THEN Goto(s, "exit") /\ UNCHANGED task_queue
       ELSE IF Len(disp[s].active_tasks) < max_concurrent /\ task_queue # <<>>
       THEN /\ disp' = [disp EXCEPT ![s].pc = "check",
                                    ![s].task_id = get_nowait(task_queue).id]
            /\ task_queue' = get_nowait(task_queue).rest
       ELSE Goto(s, "prune") /\ UNCHANGED task_queue
    /\ UNCHANGED <<tasks, running, worker_thread, wEntry, wCall, ret, hist, env>>

\* line 99: if task and task.status == Pending
Admissible(id) == Known(id) /\ tasks[id].status = Pending

DispCheck(s) ==
    /\ disp[s].pc = "check"
    /\ IF Admissible(disp[s].task_id)
       THEN Goto(s, "start")
       ELSE disp' = [disp EXCEPT ![s].pc = "admit", ![s].task_id = 0]
    /\ UNCHANGED <<tasks, task_queue, running, worker_thread, wEntry, wCall,
                   ret, hist, env>>

\* _start_task, line 119: task.status = Running
DispStart(s) ==
    /\ disp[s].pc = "start"
    /\ LET id == disp[s].task_id IN
       /\ tasks' = [tasks EXCEPT ![id].status = Running]
       /\ admitLog' = IF \E i \in 1..Len(admitLog) : admitLog[i] = id
                      THEN admitLog ELSE Append(admitLog, id)
       /\ resumed' = resumed \ {id}
    /\ Goto(s, "spawn")
    /\ UNCHANGED <<task_queue, running, worker_thread, wEntry, wCall, ret,
                   canceledPending, resumes, env>>

\* _start_task, lines 122-127: the worker thread is created and started;
\* line 101: active_tasks.append(task_id), local to the dispatcher
DispSpawn(s) ==
    /\ disp[s].pc = "spawn"
    /\ wEntry' = [wEntry EXCEPT ![disp[s].task_id] = @ + 1]
    /\ disp' = [disp EXCEPT ![s].pc = "admit", ![s].task_id = 0,
                            ![s].active_tasks = Append(@, disp[s].task_id)]
    /\ UNCHANGED <<tasks, task_queue, running, worker_thread, wCall, ret,
                   hist, env>>

\* the list of line 107 without its last entry
PrunedStatuses_unfailed == {Completed, Canceled}

\* the statuses that line 107 drops from active_tasks
PrunedStatuses == {Completed, Canceled, Failed}

Keep(id) == Known(id) /\ tasks[id].status \notin PrunedStatuses

\* lines 106-113: the list comprehension over active_tasks, then the stop
\* test: break when nothing is active and the queue is empty, otherwise
\* sleep and loop
DispPrune(s) ==
    /\ disp[s].pc = "prune"
    /\ LET kept == SelectSeq(disp[s].active_tasks, Keep) IN
       disp' = [disp EXCEPT ![s].active_tasks = kept,
                            ![s].pc = IF kept = <<>> /\ task_queue = <<>>
                                      THEN "exit" ELSE "admit"]
    /\ UNCHANGED <<tasks, task_queue, running, worker_thread, wEntry, wCall,
                   ret, hist, env>>

\* line 115: self.running = False
DispExit(s) ==
    /\ disp[s].pc = "exit"
    /\ running' = FALSE
    /\ Goto(s, "return")
    /\ UNCHANGED <<tasks, task_queue, worker_thread, wEntry, wCall, ret,
                   hist, env>>

\* the thread function has returned: is_alive() becomes False
DispTerminate(s) ==
    /\ disp[s].pc = "return"
    /\ disp' = [disp EXCEPT ![s] = DeadDispatcher]
    /\ UNCHANGED <<tasks, task_queue, running, worker_thread, wEntry, wCall,
                   ret, hist, env>>

(* --------------------------------------------- worker: _download_task *)
\* which kinds get progress callbacks: download_audio installs
\* lambda d: self._progress_hook(d, progress_callback); download_video
\* installs the value of self._progress_hook(progress_callback), which is
\* None under the definition in force; download_subtitles installs no hook
RelaysProgress(task_type) == task_type = "audio"

\* lines 131-157: the entry check and the dispatch on task_type
WorkerEntry(id) ==
    /\ wEntry[id] > 0
    /\ wEntry' = [wEntry EXCEPT ![id] = @ - 1]
    /\ IF tasks[id].status = Canceled
       THEN UNCHANGED <<tasks, wCall>>
       ELSE IF tasks[id].task_type \in {"video", "audio", "subtitle"}
       THEN /\ wCall' = [wCall EXCEPT ![id] = @ + 1]
            /\ UNCHANGED tasks
       ELSE \* ValueError, caught at line 170
            /\ tasks' = [tasks EXCEPT ![id].status = Failed,
                                      ![id].progress = 0]
            /\ UNCHANGED wCall
    /\ UNCHANGED <<task_queue, running, worker_thread, disp, ret, hist, env>>

\* a progress event of the library, relayed into task.update_progress
ProgressCallback(id, d) ==
    /\ wCall[id] > 0
    /\ RelaysProgress(tasks[id].task_type)
    /\ tasks' = [tasks EXCEPT ![id] =
                    update_progress(@, HookPercent(d), HookSpeed(d),
                                    HookEta(d))]
    /\ UNCHANGED <<task_queue, running, worker_thread, disp, wEntry, wCall,
                   ret, hist, env>>

\* lines 159-168: the adapter call returned a result dictionary
AdapterReturn(id, success) ==
    /\ wCall[id] > 0
    /\ wCall' = [wCall EXCEPT ![id] = @ - 1]
    /\ tasks' = [tasks EXCEPT ![id] =
                    IF success
                    THEN [@ EXCEPT !.result = "success",
                                   !.status = Completed, !.progress = 100]
                    ELSE [@ EXCEPT !.result = "error",
                                   !.status = Failed, !.progress = 0]]
    /\ UNCHANGED <<task_queue, running, worker_thread, disp, wEntry, ret,
                   hist, env>>

\* lines 170-173: the adapter call raised (os.makedirs runs outside the
\* adapter's own try block in download_video and download_audio)
AdapterRaise(id) ==
    /\ wCall[id] > 0
    /\ tasks[id].task_type \in {"video", "audio"}
    /\ wCall' = [wCall EXCEPT ![id] = @ - 1]
    /\ tasks' = [tasks EXCEPT ![id].status = Failed, ![id].progress = 0]
    /\ UNCHANGED <<task_queue, running, worker_thread, disp, wEntry, ret,
                   hist, env>>

(* ------------------------------------------------------------------- Next *)
\* The UI submits audio tasks: the kind whose progress events reach
\* update_progress (RelaysProgress), so the kind with the most behaviour.
\* Tasks are indexed by their order of creation; the id strings the tasks
\* compute for themselves are tracked under SpecIds only.
AddTask ==
    /\ Len(tasks) < MaxTasks
    /\ Len(tasks) < max_concurrent + 1
    /\ add_task("audio")
    /\ UNCHANGED <<clock, ids>>

AddTaskCap == add_task("audio") /\ UNCHANGED <<clock, ids>>

CancelTask == \E id \in TaskIds : cancel_task(id)

PauseTask == \E id \in TaskIds : pause_task(id)

ResumeTask == \E id \in TaskIds : resume_task(id)

Dispatcher ==
    \E s \in Slots :
        \/ DispAdmit(s)
        \/ DispCheck(s)
        \/ DispStart(s)
        \/ DispSpawn(s)
        \/ DispPrune(s)
        \/ DispExit(s)
        \/ DispTerminate(s)

Worker ==
    \E id \in TaskIds :
        \/ WorkerEntry(id)
        \/ \E d \in ProgressEvents : ProgressCallback(id, d)
        \/ \E success \in BOOLEAN : AdapterReturn(id, success)
        \/ AdapterRaise(id)

Next ==
    \/ AddTask
    \/ CancelTask
    \/ PauseTask
    \/ ResumeTask
    \/ StartWorkerCall
    \/ Dispatcher
    \/ Worker

Spec == Init /\ [][Next]_vars

\* one task more than the cap, submitted and canceled by the UI
CapNext ==
    \/ AddTaskCap
    \/ CancelTask
    \/ Dispatcher
    \/ Worker

SpecCap == Init /\ [][CapNext]_vars

\* a task of any kind, with every call of the UI on it and on unknown ids
AddTaskOne ==
    /\ Len(tasks) < SingleTasks
    /\ \E task_type \in TaskTypes : add_task(task_type)
    /\ UNCHANGED <<clock, ids>>

OneNext ==
    \/ AddTaskOne
    \/ CancelTask
    \/ PauseTask
    \/ ResumeTask
    \/ StartWorkerCall
    \/ Dispatcher
    \/ Worker

SpecOne == Init /\ [][OneNext]_vars

\* an audio task followed by a subtitle task (a kind without progress
\* callbacks), with every call of the UI on them
AddTaskPair ==
    /\ Len(tasks) < MaxTasks
    /\ Len(tasks) < max_concurrent + 1
    /\ add_task(IF Len(tasks) = 0 THEN "audio" ELSE "subtitle")
    /\ UNCHANGED <<clock, ids>>

PairNext ==
    \/ AddTaskPair
    \/ CancelTask
    \/ PauseTask
    \/ ResumeTask
    \/ Dispatcher
    \/ Worker

SpecPair == Init /\ [][PairNext]_vars

\* threads are scheduled fairly and every adapter call ends; the UI is
\* under no obligation to make another call
FairPair ==
    /\ SpecPair
    /\ WF_vars(Dispatcher)
    /\ \A id \in TaskIds :
          /\ WF_vars(WorkerEntry(id))
          /\ WF_vars(\/ \E success \in BOOLEAN : AdapterReturn(id, success)
                     \/ AdapterRaise(id))

FairOne ==
    /\ SpecOne
    /\ WF_vars(Dispatcher)
    /\ \A id \in TaskIds :
          /\ WF_vars(WorkerEntry(id))
          /\ WF_vars(\/ \E success \in BOOLEAN : AdapterReturn(id, success)
                     \/ AdapterRaise(id))

(* ------------------------------------- the progress relay on any event *)
\* the status dictionaries the library hands to a progress hook while it
\* downloads: an exact total, an exact total next to another estimate, an
\* estimate that the download has outgrown, no total at all, and the
\* closing 'finished' event; 0 = key absent or None
LibraryEvents ==
    { [status |-> "downloading", downloaded_bytes |-> 1, total_bytes |-> 2,
       total_bytes_estimate |-> 0, speed |-> 1048576, eta |-> 10],
      [status |-> "downloading", downloaded_bytes |-> 1, total_bytes |-> 4,
       total_bytes_estimate |-> 2, speed |-> 2621440, eta |-> 0],
      [status |-> "downloading", downloaded_bytes |-> 3, total_bytes |-> 0,
       total_bytes_estimate |-> 2, speed |-> 0, eta |-> 0],
      [status |-> "downloading", downloaded_bytes |-> 1, total_bytes |-> 0,
       total_bytes_estimate |-> 0, speed |-> 0, eta |-> 0],
      [status |-> "finished", downloaded_bytes |-> 2, total_bytes |-> 2,
       total_bytes_estimate |-> 0, speed |-> 0, eta |-> 0] }

\* one task, a video or an audio download
AddTaskRelay ==
    /\ Len(tasks) < SingleTasks
    /\ \E task_type \in {"video", "audio"} : add_task(task_type)
    /\ UNCHANGED <<clock, ids>>

WorkerRelay ==
    \E id \in TaskIds :
        \/ WorkerEntry(id)
        \/ \E d \in LibraryEvents : ProgressCallback(id, d)
        \/ \E success \in BOOLEAN : AdapterReturn(id, success)
        \/ AdapterRaise(id)

RelayNext ==
    \/ AddTaskRelay
    \/ CancelTask
    \/ Dispatcher
    \/ WorkerRelay

SpecRelay == Init /\ [][RelayNext]_vars

(* -------------------------------------- one task more than the cap, no UI *)
\* a video task and two subtitle tasks: kinds whose adapter call relays no
\* progress (RelaysProgress), so a worker writes the task only when the
\* call ends
AddTaskFail ==
    /\ add_task(IF Len(tasks) = 0 THEN "video" ELSE "subtitle")
    /\ UNCHANGED <<clock, ids>>

WorkerQuiet ==
    \E id \in TaskIds :
        \/ WorkerEntry(id)
        \/ \E success \in BOOLEAN : AdapterReturn(id, success)
        \/ AdapterRaise(id)

FailNext ==
    \/ AddTaskFail
    \/ Dispatcher
    \/ WorkerQuiet

SpecFail == Init /\ [][FailNext]_vars

\* threads are scheduled fairly and every adapter call ends
FairFail ==
    /\ SpecFail
    /\ WF_vars(Dispatcher)
    /\ \A id \in TaskIds :
          /\ WF_vars(WorkerEntry(id))
          /\ WF_vars(\/ \E success \in BOOLEAN : AdapterReturn(id, success)
                     \/ AdapterRaise(id))

(* --------------------------------------------------------- DownloadTask.id *)
Addresses == 1..NumAddresses

\* id(self) of the task objects created so far; the registry and the threads
\* keep every one of them alive, so none of these addresses is free
LiveAddresses == {ids[i].address : i \in 1..Len(ids)}

\* an id made of the second alone
DownloadTask_id_second(second, address) == ToString(second)

\* line 27: f"{int(time.time())}-{id(self)}"
DownloadTask_id(second, address) ==
    ToString(second) \o "-" \o ToString(address)

\* add_download_task: DownloadTask(...) is allocated at an address no live
\* object has and computes its id; add_task stores it, self.tasks[task.id] =
\* task, which overwrites an entry exactly when the id is already a key
AddTaskIds ==
    /\ Len(tasks) < MaxTasks
    /\ \E address \in Addresses \ LiveAddresses :
           ids' = Append(ids, [id |-> DownloadTask_id(clock, address),
                               address |-> address])
    /\ add_task("audio")
    /\ UNCHANGED clock

\* time.time() moves on to the next second
Tick ==
    /\ clock < MaxClock
    /\ clock' = clock + 1
    /\ UNCHANGED <<tasks, task_queue, running, worker_thread, disp, wEntry,
                   wCall, ret, hist, call, ids>>

IdsNext ==
    \/ AddTaskIds
    \/ Tick
    \/ Dispatcher
    \/ Worker

SpecIds == Init /\ [][IdsNext]_vars

(* ------------------------------------------------ strings (Python str) *)
startswith(s, prefix) ==
    Len(s) >= Len(prefix) /\ SubSeq(s, 1, Len(prefix)) = prefix

endswith(s, suffix) ==
    Len(s) >= Len(suffix)
        /\ SubSeq(s, Len(s) - Len(suffix) + 1, Len(s)) = suffix

\* sub in s
InStr(sub, s) ==
    \E i \in 1..(Len(s) - Len(sub) + 1) : SubSeq(s, i, i + Len(sub) - 1) = sub

\* s.rfind(ch) within the first n characters, 1-based; 0 when absent
RECURSIVE rfind(_, _, _)
rfind(s, ch, n) ==
    IF n = 0 THEN 0
    ELSE IF SubSeq(s, n, n) = ch THEN n
    ELSE rfind(s, ch, n - 1)

\* a call in progress becomes a returned call that carries its result
Return(c, result) ==
    [f \in DOMAIN c \cup {"result"} |->
        IF f = "result" THEN result ELSE IF f = "pc" THEN "return" ELSE c[f]]

\* how the library answers a download: "ok" (it completes and the file is
\* there), "no_file" (it completes, the file is not there), "raise"
LibraryAnswers == {"ok", "no_file", "raise"}

(* ---------------------------------------------------- download_subtitles *)
\* the language the settings can ask for
SubtitleLanguages == {"zh-CN", "zh-TW", "zh", "fr", "en"}

\* the track languages a video can have, manual or automatic
Tracks == {"zh-CN", "zh-Hant", "zh-HK", "en", "fr", "ja"}

chinese_codes == <<"zh", "zh-CN", "zh-Hans", "zh-Hant", "zh-TW">>

\* for code in codes: if code in available_subs: ... break; "" is None
RECURSIVE FirstIn(_, _)
FirstIn(codes, available_subs) ==
    IF codes = <<>> THEN ""
    ELSE IF Head(codes) \in available_subs THEN Head(codes)
    ELSE FirstIn(Tail(codes), available_subs)

\* target_language that looks for the requested code only
target_language_exact(language, available_subs) ==
    LET found == IF language \in available_subs THEN language ELSE ""
    IN  IF found = "" /\ "en" \in available_subs THEN "en" ELSE found

\* lines 172-189: the value of target_language before line 191
target_language(language, available_subs) ==
    LET found == IF startswith(language, "zh")
                 THEN FirstIn(chinese_codes, available_subs)
                 ELSE IF language \in available_subs THEN language ELSE ""
    IN  IF found = "" /\ "en" \in available_subs THEN "en" ELSE found

\* the result dictionary of download_subtitles; subtitles and
\* automatic_captions are the key sets of info['subtitles'] and
\* info['automatic_captions']
download_subtitles(language, subtitles, automatic_captions, answer) ==
    LET available_subs == subtitles \cup automatic_captions
        target == target_language(language, available_subs)
    IN  IF answer = "raise"
        THEN [success |-> FALSE, error |-> "library error"]
        ELSE IF target = ""
        THEN [success |-> FALSE,
              error |-> "no " \o language
                            \o " subtitles and no English subtitles either"]
        ELSE IF answer = "ok"
        THEN [success |-> TRUE,
              subtitle_type |-> IF target \in automatic_captions
                                THEN "auto" ELSE "manual",
              language |-> target]
        ELSE [success |-> FALSE, error |-> "subtitle download failed"]

SubtitleCalls ==
    [op : {"download_subtitles"}, pc : {"call"},
     language : SubtitleLanguages, subtitles : SUBSET Tracks,
     automatic_captions : SUBSET Tracks, answer : LibraryAnswers]

DownloadSubtitles ==
    /\ call.op = "download_subtitles"
    /\ call.pc = "call"
    /\ call' = Return(call, download_subtitles(call.language, call.subtitles,
                                               call.automatic_captions,
                                               call.answer))
    /\ UNCHANGED <<tasks, task_queue, running, worker_thread, disp, wEntry,
                   wCall, ret, hist, clock, ids>>

(* -------------------------------------------------------- download_audio *)
AudioFormats == {"mp3", "m4a"}

\* save_path, and the title and extension the library fills into outtmpl;
\* the library strips leading dots from a title and never leaves it empty
SavePaths == {"/d", "/d.x", "/d/"}
Titles == {"a", "a.b", "a."}
Exts == {"webm", "m4a"}

\* os.path.join(a, b) for a relative b (posixpath)
join(a, b) == IF a = "" \/ endswith(a, "/") THEN a \o b ELSE a \o "/" \o b

\* splitext that cuts at the first dot of the last component
splitext_first(p) ==
    LET sepIndex == rfind(p, "/", Len(p))
        dots == {i \in (sepIndex + 1)..Len(p) : SubSeq(p, i, i) = "."}
        dotIndex == CHOOSE i \in dots : \A j \in dots : i <= j
    IN  IF dots # {}
        THEN <<SubSeq(p, 1, dotIndex - 1), SubSeq(p, dotIndex, Len(p))>>
        ELSE <<p, "">>

\* os.path.splitext(p) (posixpath, genericpath._splitext): the extension
\* starts at the last dot of the last component, leading dots of the
\* component not counted
splitext(p) ==
    LET sepIndex == rfind(p, "/", Len(p))
        dotIndex == rfind(p, ".", Len(p))
    IN  IF dotIndex > sepIndex
           /\ \E i \in (sepIndex + 1)..(dotIndex - 1) : SubSeq(p, i, i) # "."
        THEN <<SubSeq(p, 1, dotIndex - 1), SubSeq(p, dotIndex, Len(p))>>
        ELSE <<p, "">>

\* ydl.prepare_filename(info) under outtmpl = join(save_path,
\* '%(title)s.%(ext)s')
prepare_filename(save_path, title, ext) == join(save_path, title \o "." \o ext)

\* the result dictionary of download_audio
download_audio(audio_format, save_path, title, ext, answer) ==
    IF answer = "raise"
    THEN [success |-> FALSE, error |-> "library error"]
    ELSE LET filename == prepare_filename(save_path, title, ext)
         IN  [success |-> TRUE,
              filename |-> splitext(filename)[1] \o "." \o audio_format,
              format |-> audio_format]

AudioCalls ==
    [op : {"download_audio"}, pc : {"call"}, audio_format : AudioFormats,
     save_path : SavePaths, title : Titles, ext : Exts,
     answer : {"ok", "raise"}]

DownloadAudio ==
    /\ call.op = "download_audio"
    /\ call.pc = "call"
    /\ call' = Return(call, download_audio(call.audio_format, call.save_path,
                                           call.title, call.ext, call.answer))
    /\ UNCHANGED <<tasks, task_queue, running, worker_thread, disp, wEntry,
                   wCall, ret, hist, clock, ids>>

(* --------------------------------------------------------- _load_settings *)
SettingsKeys ==
    {"save_path", "default_resolution", "default_audio_format",
     "default_subtitle_lang"}

\* os.path.expanduser('~/Downloads') written as the expanded path
default_settings ==
    [save_path |-> "/home/Downloads", default_resolution |-> "best",
     default_audio_format |-> "mp3", default_subtitle_lang |-> "zh-CN"]

\* what a settings file holds for a key the user has saved
persisted_settings ==
    [save_path |-> "/d", default_resolution |-> "720p",
     default_audio_format |-> "m4a", default_subtitle_lang |-> "en"]

\* what json.load returns: an object with some of the keys, an array (its
\* elements, as a set), a string, or a number / true / false / null
Documents ==
    {[kind |-> "dict", value |-> [k \in keys |-> persisted_settings[k]]] :
        keys \in SUBSET SettingsKeys}
    \cup {[kind |-> "list", value |-> items] : items \in SUBSET SettingsKeys}
    \cup {[kind |-> "str", value |-> text] : text \in {"", "best"}}
    \cup {[kind |-> "scalar", value |-> 0]}

\* the settings file: absent (os.path.exists is False), unreadable (open
\* raises), invalid (json.load raises), or holding a JSON document
SettingsFiles ==
    {[state |-> st, document |-> [kind |-> "scalar", value |-> 0]] :
        st \in {"absent", "unreadable", "invalid"}}
    \cup {[state |-> "json", document |-> doc] : doc \in Documents}

\* key in settings, by the type of settings; "TypeError" where Python raises
Contains(settings, key) ==
    CASE settings.kind = "dict" -> key \in DOMAIN settings.value
      [] settings.kind = "list" -> key \in settings.value
      [] settings.kind = "str" -> InStr(key, settings.value)
      [] OTHER -> "TypeError"

\* _load_settings: the value it returns.  settings[key] = value raises
\* TypeError on a list and on a string; every exception ends in the
\* except clause of line 359 and in return default_settings
_load_settings(file) ==
    LET settings == file.document
        defaults == [kind |-> "dict", value |-> default_settings]
    IN  IF file.state # "json" THEN defaults
        ELSE IF settings.kind = "dict"
        THEN [kind |-> "dict",
              value |-> [k \in DOMAIN settings.value \cup SettingsKeys |->
                            IF Contains(settings, k) THEN settings.value[k]
                            ELSE default_settings[k]]]
        ELSE IF settings.kind = "scalar" THEN defaults
        ELSE IF \A k \in SettingsKeys : Contains(settings, k)
        THEN settings
        ELSE defaults

SettingsCalls == [op : {"_load_settings"}, pc : {"call"}, file : SettingsFiles]

LoadSettings ==
    /\ call.op = "_load_settings"
    /\ call.pc = "call"
    /\ call' = Return(call, _load_settings(call.file))
    /\ UNCHANGED <<tasks, task_queue, running, worker_thread, disp, wEntry,
                   wCall, ret, hist, clock, ids>>

(* ----------------------------------- the calls above, on every argument *)
InitAdapter ==
    /\ tasks = <<>>
    /\ task_queue = <<>>
    /\ running = FALSE
    /\ worker_thread = 0
    /\ disp = [s \in Slots |-> DeadDispatcher]
    /\ wEntry = [t \in TaskIds |-> 0]
    /\ wCall = [t \in TaskIds |-> 0]
    /\ ret = "None"
    /\ admitLog = <<>>
    /\ canceledPending = {}
    /\ resumed = {}
    /\ resumes = 0
    /\ call \in SubtitleCalls \cup AudioCalls \cup SettingsCalls
    /\ clock = 0
    /\ ids = <<>>

AdapterNext ==
    \/ DownloadSubtitles
    \/ DownloadAudio
    \/ LoadSettings

SpecAdapter == InitAdapter /\ [][AdapterNext]_vars

(* ================================================================ claims *)
RunningTasks == {id \in DOMAIN tasks : tasks[id].status = Running}

Admitted(id) == \E i \in 1..Len(admitLog) : admitLog[i] = id

\* C1: the number of tasks whose status is Running never exceeds
\* max_concurrent
C1_ConcurrencyCap == Cardinality(RunningTasks) <= max_concurrent

C3_CanceledPendingNeverAdmitted ==
    [][\A s \in Slots :
          (DispStart(s) \/ DispSpawn(s))
              => disp[s].task_id \notin canceledPending]_vars

\* C4: every task handed to add_task that is never canceled is eventually
\* admitted (a task that was never admitted is Canceled exactly when
\* cancel_task was called on it)
C4_EventualAdmission ==
    \A id \in TaskIds :
        Known(id) ~> (Admitted(id) \/ (Known(id) /\ tasks[id].status = Canceled))

\* C5: a task that resume_task has put back to Pending and re-enqueued is
\* eventually admitted again by the dispatcher
C5_ResumeAdmitted ==
    \A id \in TaskIds : (id \in resumed) ~> (id \notin resumed)

C7_CancelRunningReturnsTrue ==
    [][\A id \in DOMAIN tasks :
          (tasks[id].status = Running /\ cancel_task(id))
              => (tasks'[id].status = Canceled /\ ret' = "True")]_vars

\* C8: cancel_task on an unknown id, or on a task that is Paused, Canceled,
\* Failed or Completed, returns False and leaves the registry, the queue and
\* every task field unchanged
C8_CancelNoOp ==
    [][\A id \in TaskIds :
          (/\ cancel_task(id)
           /\ \/ ~Known(id)
              \/ tasks[id].status \in {Paused, Canceled, Failed, Completed})
              => (ret' = "False" /\ UNCHANGED <<tasks, task_queue>>)]_vars

\* C8 witness: the last UI call returned False while a task is Paused,
\* Canceled, Failed or Completed and another id is still unknown
C8_Witness ==
    /\ ret = "False"
    /\ Len(tasks) = 1
    /\ tasks[1].status \in {Paused, Canceled, Failed, Completed}

\* C9: pause_task returns True and sets Paused exactly when the status is
\* Running; resume_task returns True exactly when the status is Paused, and
\* then sets Pending and appends the id to the tail of the queue; otherwise
\* both return False and change no task field and not the queue
C9_PauseResumeGuards ==
    [][\A id \in TaskIds :
          /\ pause_task(id) =>
                IF Known(id) /\ tasks[id].status = Running
                THEN /\ ret' = "True"
                     /\ tasks' = [tasks EXCEPT ![id].status = Paused]
                     /\ UNCHANGED task_queue
                ELSE ret' = "False" /\ UNCHANGED <<tasks, task_queue>>
          /\ resume_task(id) =>
                IF Known(id) /\ tasks[id].status = Paused
                THEN /\ ret' = "True"
                     /\ tasks' = [tasks EXCEPT ![id].status = Pending]
                     /\ task_queue' = Append(task_queue, id)
                ELSE ret' = "False" /\ UNCHANGED <<tasks, task_queue>>]_vars

\* C9 witness: a task was paused and then resumed behind another waiting id
C9_Witness ==
    /\ ret = "True"
    /\ resumes = 1
    /\ Len(task_queue) = 2
    /\ task_queue[2] \in resumed
    /\ tasks[task_queue[2]].status = Pending

\* C10: at most one dispatcher thread is alive at any moment
C10_SingleDispatcher == Cardinality(AliveDispatchers) <= 1

\* C10 witness: start_worker was called while the stopping dispatcher was
\* still alive (a waiting id is in the queue, the last UI call returned
\* None) and started nothing
C10_Witness ==
    /\ \E s \in Slots : disp[s].pc \in {"exit", "return"}
    /\ task_queue # <<>>
    /\ ret = "None"
    /\ Cardinality(AliveDispatchers) = 1

\* C11: at any moment at most one worker thread is executing the adapter
\* call of a given task, also after pause_task and resume_task on a task
\* whose first worker is still running
C11_SingleOwningWorker == \A id \in TaskIds : wCall[id] <= 1

\* C12: when a task's adapter call fails, by raising or by returning a
\* failure result, the worker leaves the task Failed with progress 0 and
\* with the error message in its result payload
C12_FailureCapture ==
    [][\A id \in DOMAIN tasks :
          (AdapterRaise(id) \/ AdapterReturn(id, FALSE))
              => /\ tasks'[id].status = Failed
                 /\ tasks'[id].progress = 0
                 /\ tasks'[id].result = "error"]_vars

\* C13: a worker that executes a task whose kind is none of video, audio and
\* subtitle ends with the error raised out of it: it does not turn the task
\* into an ordinary Failed task
C13_InvalidKindRaises ==
    [][\A id \in DOMAIN tasks :
          (/\ WorkerEntry(id)
           /\ tasks[id].status # Canceled
           /\ tasks[id].task_type \notin {"video", "audio", "subtitle"})
              => tasks'[id].status # Failed]_vars

\* C14: the subtitle language download_subtitles resolves: for a requested
\* code that starts with "zh", the first of zh, zh-CN, zh-Hans, zh-Hant,
\* zh-TW among the available tracks (manual and automatic); for another
\* code, that code if available; failing that "en" if available; failing
\* that a failure result whose message names the requested language and the
\* missing English fallback
C14_SubtitleLanguage ==
    (call.op = "download_subtitles" /\ call.pc = "return"
        /\ call.answer = "ok")
    => LET available == call.subtitles \cup call.automatic_captions
           preferred == <<"zh", "zh-CN", "zh-Hans", "zh-Hant", "zh-TW">>
           present == {i \in 1..Len(preferred) : preferred[i] \in available}
           first == CHOOSE i \in present : \A j \in present : i <= j
           expected ==
               IF startswith(call.language, "zh") /\ present # {}
               THEN preferred[first]
               ELSE IF ~startswith(call.language, "zh")
                       /\ call.language \in available
               THEN call.language
               ELSE IF "en" \in available THEN "en"
               ELSE ""
       IN  IF expected # ""
           THEN call.result.success /\ call.result.language = expected
           ELSE /\ ~call.result.success
                /\ InStr(call.language, call.result.error)
                /\ InStr("English", call.result.error)

\* C14 witness: zh-CN requested, the tracks are zh-Hant (manual) and en
\* (automatic): zh-Hant is resolved
C14_Witness ==
    /\ call.op = "download_subtitles"
    /\ call.pc = "return"
    /\ call.language = "zh-CN"
    /\ call.subtitles = {"zh-Hant"}
    /\ call.automatic_captions = {"en"}
    /\ call.result.success
    /\ call.result.language = "zh-Hant"

\* C15: a successful subtitle result labels the track "auto" when the
\* resolved language was found among the automatic captions and "manual"
\* when it was found among the manual tracks, a language in both maps
\* included
C15_TrackLabel ==
    (call.op = "download_subtitles" /\ call.pc = "return"
        /\ call.result.success)
    => /\ call.result.language \in call.automatic_captions
            => call.result.subtitle_type = "auto"
       /\ call.result.language \in call.subtitles
            => call.result.subtitle_type = "manual"

\* C18: _load_settings returns, for a file holding a key-value document,
\* every present key with its persisted value and every missing key with its
\* default; for a file that is absent, unreadable or no valid key-value
\* document, exactly the defaults
C18_SettingsLoad ==
    (call.op = "_load_settings" /\ call.pc = "return")
    => IF call.file.state = "json" /\ call.file.document.kind = "dict"
       THEN /\ call.result.kind = "dict"
            /\ \A k \in SettingsKeys :
                  call.result.value[k] =
                      IF k \in DOMAIN call.file.document.value
                      THEN call.file.document.value[k]
                      ELSE default_settings[k]
       ELSE /\ call.result.kind = "dict"
            /\ call.result.value = default_settings

\* C19: a successful download_audio for codec F reports the predicted
\* filename with its last extension replaced by ".F": directory and base
\* name are those of the predicted name
C19_AudioFilename ==
    (call.op = "download_audio" /\ call.pc = "return" /\ call.result.success)
    => LET predicted ==
               prepare_filename(call.save_path, call.title, call.ext)
           stem == SubSeq(predicted, 1, Len(predicted) - Len(call.ext) - 1)
       IN  /\ endswith(predicted, "." \o call.ext)
           /\ call.result.filename = stem \o "." \o call.audio_format

\* C19 witness: a predicted .webm name, with a dot in the directory and in
\* the title, is reported as .m4a
C19_Witness ==
    /\ call.op = "download_audio"
    /\ call.pc = "return"
    /\ call.audio_format = "m4a"
    /\ call.ext = "webm"
    /\ call.save_path = "/d.x"
    /\ call.title = "a.b"
    /\ call.result.success
    /\ call.result.filename = "/d.x/a.b.m4a"

\* C16: while download_video or download_audio runs, the hook it installed
\* relays each progress event of the library to the task's callback: the
\* percentage downloaded / total * 100 with the exact total preferred over
\* the estimate, 0 without a total, the speed in MB/s when known, and a
\* 'finished' event as 100% with the completion marker ("done", "0s")
C16_ProgressRelay ==
    \A id \in DOMAIN tasks :
        (wCall[id] > 0 /\ tasks[id].task_type \in {"video", "audio"})
        => /\ RelaysProgress(tasks[id].task_type)
           /\ \A d \in LibraryEvents :
                 /\ HookPercent(d) =
                       IF d.total_bytes > 0
                       THEN (d.downloaded_bytes * 100) \div d.total_bytes
                       ELSE IF d.total_bytes_estimate > 0
                       THEN (d.downloaded_bytes * 100)
                                \div d.total_bytes_estimate
                       ELSE 0
                 /\ d.speed > 0 => endswith(HookSpeed(d), " MB/s")
                 /\ d.status = "finished"
                       => /\ HookPercent(d) = 100
                          /\ HookSpeed(d) = "done"
                          /\ HookEta(d) = "0s"

\* C17: every task's progress lies in [0, 100] in every reachable state,
\* whatever progress events the library reports
C17_ProgressRange ==
    \A id \in DOMAIN tasks :
        tasks[id].progress >= 0 /\ tasks[id].progress <= 100

\* C20: no two tasks of the registry share an id, so add_task never
\* overwrites an entry, however many tasks are created within one second
C20_TaskIdentity ==
    \A i, j \in 1..Len(ids) : i # j => ids[i].id # ids[j].id

\* C20 witness: two tasks created and registered within the same second
C20_Witness ==
    /\ Len(ids) = 2
    /\ Len(tasks) = 2
    /\ clock = 0
    /\ startswith(ids[1].id, "0-")
    /\ startswith(ids[2].id, "0-")

\* C21: each pruning step of the dispatcher removes from its active list
\* every task that is Completed, Canceled, Failed or Paused
C21_PruneActiveSet ==
    [][\A s \in Slots :
          DispPrune(s)
              => \A i \in 1..Len(disp'[s].active_tasks) :
                    tasks[disp'[s].active_tasks[i]].status
                        \notin {Completed, Canceled, Failed, Paused}]_vars

\* worker threads that are inside an adapter call, over all tasks
RECURSIVE CallsUpTo(_)
CallsUpTo(n) == IF n = 0 THEN 0 ELSE wCall[n] + CallsUpTo(n - 1)

\* C22: the number of worker threads that are executing an adapter call at
\* the same time never exceeds max_concurrent, whatever add_task and
\* cancel_task calls are made
C22_WorkerBound == CallsUpTo(max_concurrent + 1) <= max_concurrent

\* C23: a task becomes Completed or Failed only in the step in which its
\* adapter call returns; it is never Completed while the call is executing;
\* once Completed it never becomes Failed or Running
C23_CompletionPoint ==
    [][\A id \in DOMAIN tasks :
          /\ (tasks'[id].status \in {Completed, Failed}
                 /\ tasks'[id].status # tasks[id].status)
                => wCall'[id] < wCall[id]
          /\ tasks'[id].status = Completed => wCall'[id] = 0
          /\ tasks[id].status = Completed
                => tasks'[id].status \notin {Failed, Running}]_vars

\* C24: once cancel_task has set a Running task to Canceled, the status
\* stays Canceled: no progress callback and no return of the adapter call
\* changes it
C24_CanceledKept ==
    [][\A id \in DOMAIN tasks :
          (tasks[id].status = Canceled /\ id \notin canceledPending)
              => tasks'[id].status = Canceled]_vars

\* a dispatcher thread is inside the loop of _process_queue
Looping(s) == disp[s].pc \in {"admit", "check", "start", "spawn", "prune"}

\* C25: a failing adapter call changes only its own task: every other task,
\* the queue, the running flag and the dispatcher are left as they were; the
\* next pruning step drops the Failed task from the active list, and the
\* dispatcher goes on to admit the ids that wait in the queue
C25_FailureIsolation ==
    /\ [][\A id \in DOMAIN tasks :
             /\ (AdapterRaise(id) \/ AdapterReturn(id, FALSE))
                   => /\ tasks'[id].status = Failed
                      /\ \A other \in DOMAIN tasks \ {id} :
                            tasks'[other] = tasks[other]
                      /\ UNCHANGED <<task_queue, running, worker_thread,
                                     disp>>
             /\ \A s \in Slots :
                   (DispPrune(s) /\ tasks[id].status = Failed)
                       => \A i \in 1..Len(disp'[s].active_tasks) :
                             disp'[s].active_tasks[i] # id]_vars
    /\ \A id \in TaskIds : \A waiting \in TaskIds :
          (/\ Known(id) /\ tasks[id].status = Failed
           /\ Known(waiting) /\ tasks[waiting].status = Pending
           /\ \E i \in 1..Len(task_queue) : task_queue[i] = waiting
           /\ \E s \in Slots : Looping(s))
          ~> Admitted(waiting)

\* C25 witness: the first two tasks were admitted, the first one failed, and
\* the third one runs in the slot it freed while the second one still runs
C25_Witness ==
    /\ Len(tasks) = 3
    /\ tasks[1].status = Failed
    /\ wCall[1] = 0
    /\ wCall[2] = 1
    /\ wCall[3] = 1
    /\ tasks[2].status = Running
    /\ tasks[3].status = Running
    /\ admitLog = <<1, 2, 3>>

\* the dispatcher has stopped: its thread has ended and left running False
Stopped == AliveDispatchers = {} /\ ~running

\* C26: whenever the dispatcher has stopped, no task is Running and no
\* Pending task's id is left in the queue
C26_StopCondition ==
    Stopped
    => /\ \A id \in DOMAIN tasks : tasks[id].status # Running
       /\ \A i \in 1..Len(task_queue) :
             ~(Known(task_queue[i]) /\ tasks[task_queue[i]].status = Pending)

\* C27: a task canceled after _start_task has set it Running and before its
\* worker makes the entry check: the worker makes no adapter call and writes
\* no task field, and the task stays Canceled with no result
C27_CancelBeforeWorkerStart ==
    [][\A id \in DOMAIN tasks :
          (/\ tasks[id].status = Canceled
           /\ id \notin canceledPending
           /\ wCall[id] = 0)
              => /\ tasks'[id] = tasks[id]
                 /\ wCall'[id] = 0
                 /\ tasks[id].result = "None"]_vars

====
